---- MODULE Spec2Model ----
(***************************************************************************)
(* KeihiAI receipt pipeline (src/keihi_server.py): the shared status dict, *)
(* the analyze / get_status handlers and the background process_files     *)
(* task, with the pure helpers they call.                                  *)
(*                                                                         *)
(* Text is a sequence of characters.  TLA+ strings are ASCII, so a kana or *)
(* kanji character is written as a token "k.xx" (katakana), "h.xx"        *)
(* (hiragana) or "j.xx" (kanji); one token is one character of the source  *)
(* string.  Record keys: shop = 店名, date = 日付, amount = 金額,           *)
(* category = カテゴリ, payment = 支払方法, notes = 備考.                    *)
(*                                                                         *)
(* In src/keihi_server.py the statements status["step"] = 2 and            *)
(* status["step"] = 3 stand on lines 311 and 319 behind the text of the    *)
(* Step2 / Step3 comments (the line break after the comment was lost when  *)
(* the file was transcoded, as on lines 26, 248, 270 and 280); they are    *)
(* modelled as the statements they are.                                    *)
(***************************************************************************)
EXTENDS Integers, Sequences, FiniteSets, TLC

VARIABLES status, job, uploads, api_key, resp, artifacts

vars == <<status, job, uploads, api_key, resp, artifacts>>

----------------------------------------------------------------------------
(* Bounds of the model *)

MaxJobs == 2

MaxFiles == 1

MaxBatch == 2

MaxWords == 2

----------------------------------------------------------------------------
(* JSON values as Python sees them: a str, an int or None *)

S(v) == [t |-> "str", v |-> v]

I(n) == [t |-> "int", v |-> n]

PyNone == [t |-> "null"]

(* dict.get(key, default) *)
Get(r, k, default) == IF k \in DOMAIN r THEN r[k] ELSE default

(* the outcome of a call: a returned value or a raised exception *)
Ret(v) == [kind |-> "return", val |-> v]

Raise(msg) == [kind |-> "raise", msg |-> msg]

(* "その他" *)
CATCH_ALL == <<"h.so", "h.no", "j.ta">>

CATEGORY_RULES ==
  << [cat |-> <<"j.chuu", "j.sha", "j.jo">>,
      keywords |-> << <<"k.pa", "k.-", "k.ki", "k.n", "k.gu">>,
                      <<"j.chuu", "j.sha">>,
                      <<"p", "a", "r", "k", "i", "n", "g">>,
                      <<"k.ko", "k.i", "k.n", "k.pa", "k.-", "k.ku">> >>],
     [cat |-> <<"j.kou", "j.tsuu", "j.hi">>,
      keywords |-> << <<"j.den", "j.sha">>,
                      <<"k.ba", "k.su">>,
                      <<"k.ta", "k.ku", "k.shi", "k.-">>,
                      <<"j.shin", "j.kan", "j.sen">>,
                      <<"j.jou", "j.sha">>,
                      <<"I", "C">> >>],
     [cat |-> <<"j.in", "j.shoku", "j.hi">>,
      keywords |-> << <<"k.re", "k.su", "k.to", "k.ra", "k.n">>,
                      <<"k.ka", "k.fe">>,
                      <<"j.shoku", "j.dou">>,
                      <<"j.i", "j.zaka", "j.ya">>,
                      <<"k.ra", "k.n", "k.chi">>,
                      <<"k.ko", "k.-", "k.hi", "k.-">>,
                      <<"j.shoku", "j.ji">> >>],
     [cat |-> <<"j.yado", "j.haku", "j.hi">>,
      keywords |-> << <<"k.ho", "k.te", "k.ru">>,
                      <<"j.ryo", "j.kan2">>,
                      <<"j.yado">>,
                      <<"i", "n", "n">>,
                      <<"h", "o", "t", "e", "l">> >>],
     [cat |-> <<"j.shou2", "j.mou", "j.hin">>,
      keywords |-> << <<"k.ko", "k.n", "k.bi", "k.ni">>,
                      <<"k.do", "k.ra", "k.tsu", "k.gu">>,
                      <<"j.bun", "j.gu">>,
                      <<"k.ro", "k.-", "k.so", "k.n">>,
                      <<"k.se", "k.bu", "k.n">>,
                      <<"k.fa", "k.mi", "k.ma">> >>],
     [cat |-> <<"j.tsuu", "j.shin2", "j.hi">>,
      keywords |-> << <<"k.do", "k.ko", "k.mo">>,
                      <<"a", "u">>,
                      <<"k.so", "k.fu", "k.to", "k.ba", "k.n", "k.ku">>,
                      <<"j.tsuu", "j.shin2">>,
                      <<"k.i", "k.n", "k.ta", "k.-", "k.ne", "k.tsu", "k.to">> >>] >>

(* kw in text *)
Contains(kw, text) ==
  \E i \in 1..(Len(text) - Len(kw) + 1) : SubSeq(text, i, i + Len(kw) - 1) = kw

RECURSIVE ScanKeywords(_, _, _)
ScanKeywords(keywords, k, text) ==
  IF k > Len(keywords) THEN FALSE
  ELSE IF Contains(keywords[k], text) THEN TRUE
  ELSE ScanKeywords(keywords, k + 1, text)

(* the scan going on after a match: the last matching category wins *)
RECURSIVE ScanRulesLast(_, _)
ScanRulesLast(c, text) ==
  IF c > Len(CATEGORY_RULES) THEN CATCH_ALL
  ELSE LET later == ScanRulesLast(c + 1, text)
       IN  IF later # CATCH_ALL THEN later
           ELSE IF ScanKeywords(CATEGORY_RULES[c].keywords, 1, text)
                THEN CATEGORY_RULES[c].cat
                ELSE CATCH_ALL

RECURSIVE ScanRules(_, _)
ScanRules(c, text) ==
  IF c > Len(CATEGORY_RULES) THEN CATCH_ALL
  ELSE IF ScanKeywords(CATEGORY_RULES[c].keywords, 1, text) THEN CATEGORY_RULES[c].cat
  ELSE ScanRules(c + 1, text)

guess_category(text) == ScanRules(1, text)

(* str.replace(pat, ""): every non-overlapping occurrence, left to right *)
RECURSIVE Remove(_, _)
Remove(text, pat) ==
  IF Len(text) < Len(pat) THEN text
  ELSE IF SubSeq(text, 1, Len(pat)) = pat
       THEN Remove(SubSeq(text, Len(pat) + 1, Len(text)), pat)
       ELSE <<Head(text)>> \o Remove(Tail(text), pat)

(* "手動確認推奨" *)
MANUAL_CHECK == <<"j.shu", "j.dou2", "j.kaku", "j.nin", "j.sui", "j.shou">>

fallback_read(filename) ==
  [shop     |-> S(Remove(Remove(Remove(filename, <<".", "j", "p", "g">>),
                                <<".", "p", "n", "g">>),
                         <<".", "p", "d", "f">>)),
   date     |-> S(<<"2", "0", "2", "5", "/", "1", "0", "/", "0", "1">>),
   amount   |-> I(1000),
   category |-> S(CATCH_ALL),
   payment  |-> S(<<"j.gen", "j.kin">>),
   notes    |-> S(MANUAL_CHECK)]

----------------------------------------------------------------------------
(* The vision service (external): the JSON object it answers for an image. *)
(* An image is named by what is on it; the answers cover a well-formed     *)
(* record, a record without a category, the empty object and answers whose *)
(* fields are not of the type the record has in the data model.            *)

Images == {"img_cafe", "img_icinn", "img_empty", "img_str_amount",
           "img_null_shop", "img_null_date"}

VisionAnswer(image) ==
  CASE image = "img_cafe" ->
         [shop     |-> S(<<"k.ka", "k.fe">>),
          date     |-> S(<<"1", "0", "-", "0", "2">>),
          amount   |-> I(300),
          category |-> S(<<"j.in", "j.shoku", "j.hi">>),
          payment  |-> S(<<"j.gen", "j.kin">>),
          notes    |-> S(<<>>)]
    [] image = "img_icinn" ->
         [shop     |-> S(<<"I", "C", "i", "n", "n">>),
          amount   |-> I(500)]
    [] image = "img_empty" -> [k \in {} |-> PyNone]
    [] image = "img_str_amount" ->
         [shop     |-> S(<<"a", "u">>),
          date     |-> S(<<"1", "0", "/", "0", "3">>),
          amount   |-> S(<<"1", ",", "2", "0", "0">>),
          category |-> S(CATCH_ALL),
          notes    |-> S(<<>>)]
    [] image = "img_null_shop" ->
         [shop     |-> PyNone,
          date     |-> S(<<"1", "0", "/", "0", "4">>),
          amount   |-> I(200),
          category |-> S(<<>>),
          notes    |-> S(<<>>)]
    [] image = "img_null_date" ->
         [shop     |-> S(<<"h", "o", "t", "e", "l">>),
          date     |-> PyNone,
          amount   |-> I(700),
          category |-> S(<<"j.kou", "j.tsuu", "j.hi">>)]

(* What can happen to one call of the adapter once the credential is there *)
Outcomes == {"ok", "network_error", "timeout", "image_io", "no_json", "bad_json"}

(* lines 66-86: the body of the try block *)
CallVision(outcome, image) ==
  CASE outcome = "ok"            -> Ret(VisionAnswer(image))
    [] outcome = "no_json"       -> Ret(PyNone)
    [] outcome = "bad_json"      -> Raise("JSONDecodeError")
    [] outcome = "image_io"      -> Raise("cannot identify image file")
    [] outcome = "timeout"       -> Raise("Request timed out.")
    [] outcome = "network_error" -> Raise("Connection error.")

(* the adapter without its except clause *)
ReadReceiptUncaught(key, outcome, image) ==
  IF ~key THEN Ret(PyNone) ELSE CallVision(outcome, image)

(* lines 59-89 *)
read_receipt_with_claude(key, outcome, image) ==
  IF ~key THEN Ret(PyNone)
  ELSE LET body == CallVision(outcome, image)
       IN  IF body.kind = "raise" THEN Ret(PyNone) ELSE body

(* Python truth value of a str, an int or None *)
Truthy(v) ==
  CASE v.t = "null" -> FALSE
    [] v.t = "str"  -> v.v # <<>>
    [] v.t = "int"  -> v.v # 0

(* truth value of the adapter's result: None and {} are false *)
TruthyResult(result) == result # PyNone /\ DOMAIN result # {}

MSG_ADD == "unsupported operand type(s) for +"

MSG_IN == "argument is not iterable"

MSG_ATTR == "object has no attribute 'replace'"

MSG_FORMAT == "unsupported format string"

MSG_WRITE == "No space left on device"

(* a + b *)
PyAdd(a, b) ==
  IF a.t = "str" /\ b.t = "str" THEN Ret(S(a.v \o b.v))
  ELSE IF a.t = "int" /\ b.t = "int" THEN Ret(I(a.v + b.v))
  ELSE Raise(MSG_ADD)

(* lines 321-323: one pass of the classification loop *)
(* the guard of line 321 left out: every record is classified again *)
ClassifyRecordAlways(r) ==
  LET text == PyAdd(Get(r, "shop", S(<<>>)), Get(r, "notes", S(<<>>)))
  IN  IF text.kind = "raise" THEN text
      ELSE IF text.val.t # "str" THEN Raise(MSG_IN)
      ELSE Ret(("category" :> S(guess_category(text.val.v))) @@ r)

ClassifyRecord(r) ==
  IF ~Truthy(Get(r, "category", PyNone)) \/ r["category"] = S(CATCH_ALL)
  THEN LET text == PyAdd(Get(r, "shop", S(<<>>)), Get(r, "notes", S(<<>>)))
       IN  IF text.kind = "raise" THEN text
           ELSE IF text.val.t # "str" THEN Raise(MSG_IN)
           ELSE Ret(("category" :> S(guess_category(text.val.v))) @@ r)
  ELSE Ret(r)

(* lines 320-323: the loop *)
RECURSIVE ClassifyFrom(_, _)
ClassifyFrom(receipts, i) ==
  IF i > Len(receipts) THEN Ret(receipts)
  ELSE LET c == ClassifyRecord(receipts[i])
       IN  IF c.kind = "raise" THEN c
           ELSE ClassifyFrom([receipts EXCEPT ![i] = c.val], i + 1)

----------------------------------------------------------------------------
(* The four renderers: each returns (total, len(cats)) from its own loop,   *)
(* or raises.  io_ok says whether the artifact file could be written.       *)

Result(total, cats) == Ret([total |-> total, cats |-> Cardinality(cats)])

(* total += amt, total an int *)
AddAmount(total, amt) == PyAdd(I(total), amt)

(* lines 128-140 *)
RECURSIVE FreeeLoop(_, _, _, _)
FreeeLoop(receipts, i, total, cats) ==
  IF i > Len(receipts) THEN Result(total, cats)
  ELSE LET r    == receipts[i]
           cat  == Get(r, "category", S(CATCH_ALL))
           amt  == Get(r, "amount", I(0))
           date == Get(r, "date", S(<<>>))
           memo == PyAdd(Get(r, "shop", S(<<>>)), S(<<>>))
           sum  == AddAmount(total, amt)
       IN  IF date.t # "str" THEN Raise(MSG_ATTR)
           ELSE IF memo.kind = "raise" THEN memo
           ELSE IF sum.kind = "raise" THEN sum
           ELSE FreeeLoop(receipts, i + 1, sum.val.v, cats \cup {cat})

make_freee_csv(receipts, io_ok) ==
  IF ~io_ok THEN Raise(MSG_WRITE) ELSE FreeeLoop(receipts, 1, 0, {})

(* the loop with "total = amount" for "total += amount" *)
RECURSIVE CsvLoopOverwrite(_, _, _, _)
CsvLoopOverwrite(receipts, i, total, cats) ==
  IF i > Len(receipts) THEN Result(total, cats)
  ELSE LET r   == receipts[i]
           amt == Get(r, "amount", I(0))
           sum == AddAmount(total, amt)
       IN  IF sum.kind = "raise" THEN sum
           ELSE CsvLoopOverwrite(receipts, i + 1, amt.v,
                                 cats \cup {Get(r, "category", S(CATCH_ALL))})

(* lines 150-154 *)
RECURSIVE CsvLoop(_, _, _, _)
CsvLoop(receipts, i, total, cats) ==
  IF i > Len(receipts) THEN Result(total, cats)
  ELSE LET r   == receipts[i]
           sum == AddAmount(total, Get(r, "amount", I(0)))
       IN  IF sum.kind = "raise" THEN sum
           ELSE CsvLoop(receipts, i + 1, sum.val.v,
                        cats \cup {Get(r, "category", S(CATCH_ALL))})

make_csv(receipts, io_ok) ==
  IF ~io_ok THEN Raise(MSG_WRITE) ELSE CsvLoop(receipts, 1, 0, {})

(* lines 179-183: the amount is formatted with "," before it is added *)
RECURSIVE PdfLoop(_, _, _, _)
PdfLoop(receipts, i, total, cats) ==
  IF i > Len(receipts) THEN Result(total, cats)
  ELSE LET r   == receipts[i]
           amt == Get(r, "amount", I(0))
           sum == AddAmount(total, amt)
       IN  IF amt.t # "int" THEN Raise(MSG_FORMAT)
           ELSE IF sum.kind = "raise" THEN sum
           ELSE PdfLoop(receipts, i + 1, sum.val.v,
                        cats \cup {Get(r, "category", S(CATCH_ALL))})

make_pdf(receipts, io_ok) ==
  IF ~io_ok THEN Raise(MSG_WRITE) ELSE PdfLoop(receipts, 1, 0, {})

(* lines 232-246: the rows and the total *)
RECURSIVE ExcelRows(_, _, _)
ExcelRows(receipts, i, total) ==
  IF i > Len(receipts) THEN Ret(I(total))
  ELSE LET sum == AddAmount(total, Get(receipts[i], "amount", I(0)))
       IN  IF sum.kind = "raise" THEN sum
           ELSE ExcelRows(receipts, i + 1, sum.val.v)

(* the loop with the default "" of the cell on line 236 for the category *)
RECURSIVE ExcelCatTotalsBlank(_, _, _)
ExcelCatTotalsBlank(receipts, i, cat_totals) ==
  IF i > Len(receipts) THEN Ret(cat_totals)
  ELSE LET r    == receipts[i]
           cat  == Get(r, "category", S(<<>>))
           sum  == PyAdd(Get(cat_totals, cat, I(0)), Get(r, "amount", I(0)))
       IN  IF sum.kind = "raise" THEN sum
           ELSE ExcelCatTotalsBlank(receipts, i + 1, (cat :> sum.val) @@ cat_totals)

(* lines 271-274: cat_totals, a dict from category to amount *)
RECURSIVE ExcelCatTotals(_, _, _)
ExcelCatTotals(receipts, i, cat_totals) ==
  IF i > Len(receipts) THEN Ret(cat_totals)
  ELSE LET r    == receipts[i]
           cat  == Get(r, "category", S(CATCH_ALL))
           sum  == PyAdd(Get(cat_totals, cat, I(0)), Get(r, "amount", I(0)))
       IN  IF sum.kind = "raise" THEN sum
           ELSE ExcelCatTotals(receipts, i + 1, (cat :> sum.val) @@ cat_totals)

(* a chart that cannot be built over an empty category sheet *)
make_excel_no_empty_chart(receipts, io_ok) ==
  LET rows == ExcelRows(receipts, 1, 0)
      cat_totals == ExcelCatTotals(receipts, 1, [c \in {} |-> I(0)])
  IN  IF rows.kind = "raise" THEN rows
      ELSE IF cat_totals.kind = "raise" THEN cat_totals
      ELSE IF DOMAIN cat_totals.val = {} THEN Raise("max_row < min_row")
      ELSE IF ~io_ok THEN Raise(MSG_WRITE)
      ELSE Result(rows.val.v, DOMAIN cat_totals.val)

(* lines 202-296 *)
make_excel(receipts, io_ok) ==
  LET rows == ExcelRows(receipts, 1, 0)
      cat_totals == ExcelCatTotals(receipts, 1, [c \in {} |-> I(0)])
  IN  IF rows.kind = "raise" THEN rows
      ELSE IF cat_totals.kind = "raise" THEN cat_totals
      ELSE IF ~io_ok THEN Raise(MSG_WRITE)
      ELSE Result(rows.val.v, DOMAIN cat_totals.val)

(* lines 330-338: the renderer the format selects *)
Render(fmt, receipts, io_ok) ==
  CASE fmt = "csv"   -> make_csv(receipts, io_ok)
    [] fmt = "freee" -> make_freee_csv(receipts, io_ok)
    [] fmt = "pdf"   -> make_pdf(receipts, io_ok)
    [] OTHER         -> make_excel(receipts, io_ok)

(* lines 120, 147, 167, 294 and 367-372: the file a format is written to *)
ArtifactFile(fmt) ==
  CASE fmt = "csv"   -> "expense_report.csv"
    [] fmt = "freee" -> "expense_report_freee.csv"
    [] fmt = "pdf"   -> "expense_report.pdf"
    [] OTHER         -> "expense_report.xlsx"

(* The artifact files after job j has run the renderer of fmt with outcome *)
(* out.  A file holds who wrote it and whether it was written to the end.  *)
(* The two CSV renderers open (and truncate) their file before the loop,   *)
(* so a fault in the loop leaves a partial file; the workbook and the PDF  *)
(* are written by one call at the end (lines 199, 295), so a fault before  *)
(* it leaves the old file.  A file that cannot be written stays as it was. *)
ArtifactsAfter(files, fmt, out, io_ok, j) ==
  IF out.kind = "return"
  THEN (ArtifactFile(fmt) :> [by |-> j, complete |-> TRUE]) @@ files
  ELSE IF io_ok /\ fmt \in {"csv", "freee"}
       THEN (ArtifactFile(fmt) :> [by |-> j, complete |-> FALSE]) @@ files
       ELSE files

----------------------------------------------------------------------------
(* Inputs of a submission *)

Jobs == 1..MaxJobs

HOTEL_JPG == <<"h", "o", "t", "e", "l", ".", "j", "p", "g">>

MEMO_PNG == <<"m", "e", "m", "o", ".", "p", "n", "g">>

(* an uploaded file: (f.filename, f.read()) *)
Files ==
  { [name |-> HOTEL_JPG, data |-> "img_cafe"],
    [name |-> HOTEL_JPG, data |-> "img_null_date"],
    [name |-> MEMO_PNG,  data |-> "img_icinn"],
    [name |-> MEMO_PNG,  data |-> "img_empty"],
    [name |-> MEMO_PNG,  data |-> "img_str_amount"],
    [name |-> MEMO_PNG,  data |-> "img_null_shop"] }

(* the files submitted while several jobs run at once *)
SharedFiles ==
  { [name |-> HOTEL_JPG, data |-> "img_cafe"],
    [name |-> HOTEL_JPG, data |-> "img_str_amount"],
    [name |-> MEMO_PNG,  data |-> "img_null_shop"] }

RECURSIVE SeqsUpTo(_, _)
SeqsUpTo(set, n) ==
  IF n = 0 THEN {<<>>}
  ELSE LET shorter == SeqsUpTo(set, n - 1)
       IN  shorter \cup {Append(q, x) : q \in shorter, x \in set}

(* the "format" form field; "absent" when the request carries none *)
FormatArgs == {"absent", "csv", "freee", "pdf"}

SharedFormatArgs == {"absent", "csv"}

(* request.form.get("format", "excel") *)
FormFormat(arg) == IF arg = "absent" THEN "excel" ELSE arg

----------------------------------------------------------------------------
(* State *)

Null == "null"

(* line 22 and line 352: the dict literal, without the key "format" *)
FreshStatus ==
  [step |-> 0, done |-> FALSE, error |-> Null, count |-> 0, total |-> 0,
   categories |-> 0]

NoResult == [total |-> 0, cats |-> 0]

IdleJob ==
  [pc |-> "idle", files_data |-> <<>>, form |-> "absent", saved_paths |-> <<>>,
   receipts |-> <<>>, result |-> NoResult]

NoResp == [kind |-> "none"]

Init ==
  /\ status = FreshStatus
  /\ job = [j \in Jobs |-> IdleJob]
  /\ uploads = [n \in {} |-> "img_empty"]
  /\ api_key \in BOOLEAN
  /\ resp = NoResp
  /\ artifacts = [f \in {} |-> [by |-> 0, complete |-> FALSE]]

----------------------------------------------------------------------------
(* analyze *)

(* a reset that keeps the dict and clears only the progress fields *)
AnalyzeResetProgressOnly(j, files, arg) ==
  /\ job[j].pc = "idle"
  /\ \A k \in Jobs : k < j => job[k].pc # "idle"
  /\ status' = [status EXCEPT !["step"] = 0, !["done"] = FALSE, !["error"] = Null]
  /\ job' = [job EXCEPT ![j] = [IdleJob EXCEPT !.pc = "request",
                                               !.files_data = files,
                                               !.form = arg]]
  /\ resp' = NoResp
  /\ UNCHANGED <<uploads, api_key, artifacts>>

(* lines 352-355: the handler rebinds status and reads the request *)
AnalyzeReset(j, files, arg) ==
  /\ job[j].pc = "idle"
  /\ \A k \in Jobs : k < j => job[k].pc # "idle"
  /\ status' = FreshStatus
  /\ job' = [job EXCEPT ![j] = [IdleJob EXCEPT !.pc = "request",
                                               !.files_data = files,
                                               !.form = arg]]
  /\ resp' = NoResp
  /\ UNCHANGED <<uploads, api_key, artifacts>>

(* lines 356-358: the format is stored, the thread started, {"ok": true} *)
AnalyzeStart(j) ==
  /\ job[j].pc = "request"
  /\ status' = ("format" :> FormFormat(job[j].form)) @@ status
  /\ job' = [job EXCEPT ![j].pc = "step1"]
  /\ resp' = [kind |-> "ok"]
  /\ UNCHANGED <<uploads, api_key, artifacts>>

(* lines 360-362 *)
get_status ==
  /\ resp' = [kind |-> "status", body |-> status]
  /\ UNCHANGED <<status, job, uploads, api_key, artifacts>>

(* lines 367-372: the name the file is sent under *)
DownloadName(fmt) ==
  CASE fmt = "csv"   -> "expense_report.csv"
    [] fmt = "freee" -> "freee_import.csv"
    [] fmt = "pdf"   -> "expense_report.pdf"
    [] OTHER         -> "expense_report.xlsx"

(* a fetch that records the format it fell back to *)
download_sets_default ==
  LET fmt  == Get(status, "format", "excel")
      file == ArtifactFile(fmt)
  IN  /\ resp' = IF file \in DOMAIN artifacts
                THEN [kind |-> "file", name |-> DownloadName(fmt),
                      content |-> artifacts[file]]
                ELSE [kind |-> "not_found"]
      /\ status' = ("format" :> fmt) @@ status
      /\ UNCHANGED <<job, uploads, api_key, artifacts>>

(* lines 364-377 *)
download ==
  LET fmt  == Get(status, "format", "excel")
      file == ArtifactFile(fmt)
  IN  /\ resp' = IF file \in DOMAIN artifacts
                THEN [kind |-> "file", name |-> DownloadName(fmt),
                      content |-> artifacts[file]]
                ELSE [kind |-> "not_found"]
      /\ UNCHANGED <<status, job, uploads, api_key, artifacts>>

----------------------------------------------------------------------------
(* process_files, one job's background thread *)

(* an except clause that rolls the progress back *)
ExceptRollback(j, msg) ==
  /\ status' = [status EXCEPT !["error"] = msg, !["step"] = 0]
  /\ job' = [job EXCEPT ![j] = [IdleJob EXCEPT !.pc = "failed"]]

(* lines 342-343: except Exception as e: status["error"] = str(e); the    *)
(* thread ends and its locals are gone                                     *)
Except(j, msg) ==
  /\ status' = [status EXCEPT !["error"] = msg]
  /\ job' = [job EXCEPT ![j] = [IdleJob EXCEPT !.pc = "failed"]]

SetStep(j, n, next) ==
  /\ status' = [status EXCEPT !["step"] = n]
  /\ job' = [job EXCEPT ![j].pc = next]

(* line 304 *)
Step1(j) ==
  /\ job[j].pc = "step1"
  /\ SetStep(j, 1, "stage")
  /\ resp' = NoResp
  /\ UNCHANGED <<uploads, api_key, artifacts>>

(* lines 306-309: one pass of the staging loop; write_bytes may fail *)
Stage(j, written) ==
  /\ job[j].pc = "stage"
  /\ Len(job[j].saved_paths) < Len(job[j].files_data)
  /\ LET f == job[j].files_data[Len(job[j].saved_paths) + 1]
     IN  IF written
         THEN /\ uploads' = (f.name :> f.data) @@ uploads
              /\ job' = [job EXCEPT ![j].saved_paths = Append(@, f.name)]
              /\ UNCHANGED status
         ELSE /\ Except(j, MSG_WRITE)
              /\ UNCHANGED uploads
  /\ resp' = NoResp
  /\ UNCHANGED <<api_key, artifacts>>

(* the step-2 write missing, as if it were part of the comment before it *)
Step2Skipped(j) ==
  /\ job[j].pc = "stage"
  /\ Len(job[j].saved_paths) = Len(job[j].files_data)
  /\ job' = [job EXCEPT ![j].pc = "extract"]
  /\ resp' = NoResp
  /\ UNCHANGED <<status, uploads, api_key, artifacts>>

(* line 311 *)
Step2(j) ==
  /\ job[j].pc = "stage"
  /\ Len(job[j].saved_paths) = Len(job[j].files_data)
  /\ SetStep(j, 2, "extract")
  /\ resp' = NoResp
  /\ UNCHANGED <<uploads, api_key, artifacts>>

(* lines 315-317: the record of a file, from what the adapter returned *)
RecordFor(result, name) ==
  IF TruthyResult(result) THEN result ELSE fallback_read(name)

(* lines 312-317: one pass of the extraction loop, on the bytes now staged *)
(* under the file's name (the "_resized.jpg" copy of line 69 is left out:  *)
(* no upload has such a name)                                              *)
Extract(j, outcome) ==
  /\ job[j].pc = "extract"
  /\ Len(job[j].receipts) < Len(job[j].saved_paths)
  /\ LET name   == job[j].saved_paths[Len(job[j].receipts) + 1]
         result == read_receipt_with_claude(api_key, outcome, uploads[name])
     IN  IF result.kind = "raise"
         THEN Except(j, result.msg)
         ELSE /\ job' = [job EXCEPT ![j].receipts =
                           Append(@, RecordFor(result.val, name))]
              /\ UNCHANGED status
  /\ resp' = NoResp
  /\ UNCHANGED <<uploads, api_key, artifacts>>

(* line 319 *)
Step3(j) ==
  /\ job[j].pc = "extract"
  /\ Len(job[j].receipts) = Len(job[j].saved_paths)
  /\ SetStep(j, 3, "classify")
  /\ resp' = NoResp
  /\ UNCHANGED <<uploads, api_key, artifacts>>

(* lines 320-323 *)
Classify(j) ==
  /\ job[j].pc = "classify"
  /\ LET c == ClassifyFrom(job[j].receipts, 1)
     IN  IF c.kind = "raise"
         THEN Except(j, c.msg)
         ELSE /\ job' = [job EXCEPT ![j].receipts = c.val, ![j].pc = "step4"]
              /\ UNCHANGED status
  /\ resp' = NoResp
  /\ UNCHANGED <<uploads, api_key, artifacts>>

(* line 326 *)
Step4(j) ==
  /\ job[j].pc = "step4"
  /\ SetStep(j, 4, "step5")
  /\ resp' = NoResp
  /\ UNCHANGED <<uploads, api_key, artifacts>>

(* line 329 *)
Step5(j) ==
  /\ job[j].pc = "step5"
  /\ SetStep(j, 5, "render")
  /\ resp' = NoResp
  /\ UNCHANGED <<uploads, api_key, artifacts>>

(* lines 330-338: the format is read from the shared status *)
RenderReport(j, io_ok) ==
  /\ job[j].pc = "render"
  /\ LET fmt == Get(status, "format", "excel")
         out == Render(fmt, job[j].receipts, io_ok)
     IN  /\ artifacts' = ArtifactsAfter(artifacts, fmt, out, io_ok, j)
         /\ IF out.kind = "raise"
            THEN Except(j, out.msg)
            ELSE /\ job' = [job EXCEPT ![j].result = out.val, ![j].pc = "publish"]
                 /\ UNCHANGED status
  /\ resp' = NoResp
  /\ UNCHANGED <<uploads, api_key>>

(* the update without the done flag *)
PublishCountsOnly(j) ==
  /\ job[j].pc = "publish"
  /\ status' = [status EXCEPT !["count"] = Len(job[j].receipts),
                              !["total"] = job[j].result.total,
                              !["categories"] = job[j].result.cats]
  /\ job' = [job EXCEPT ![j] = [IdleJob EXCEPT !.pc = "finished"]]
  /\ resp' = NoResp
  /\ UNCHANGED <<uploads, api_key, artifacts>>

(* the update with count and categories swapped *)
PublishSwapped(j) ==
  /\ job[j].pc = "publish"
  /\ status' = [status EXCEPT !["done"] = TRUE,
                              !["count"] = job[j].result.cats,
                              !["total"] = job[j].result.total,
                              !["categories"] = Len(job[j].receipts)]
  /\ job' = [job EXCEPT ![j] = [IdleJob EXCEPT !.pc = "finished"]]
  /\ resp' = NoResp
  /\ UNCHANGED <<uploads, api_key, artifacts>>

(* line 340: status.update(...); the thread ends *)
Publish(j) ==
  /\ job[j].pc = "publish"
  /\ status' = [status EXCEPT !["done"] = TRUE,
                              !["count"] = Len(job[j].receipts),
                              !["total"] = job[j].result.total,
                              !["categories"] = job[j].result.cats]
  /\ job' = [job EXCEPT ![j] = [IdleJob EXCEPT !.pc = "finished"]]
  /\ resp' = NoResp
  /\ UNCHANGED <<uploads, api_key, artifacts>>

process_files(j) ==
  \/ Step1(j)
  \/ \E written \in BOOLEAN : Stage(j, written)
  \/ Step2(j)
  \/ \E outcome \in Outcomes : Extract(j, outcome)
  \/ Step3(j)
  \/ Classify(j)
  \/ Step4(j)
  \/ Step5(j)
  \/ \E io_ok \in BOOLEAN : RenderReport(j, io_ok)
  \/ Publish(j)

(* the jobs of one server, any number of them running at once *)
Next ==
  \/ \E j \in Jobs, files \in SeqsUpTo(SharedFiles, MaxFiles), arg \in SharedFormatArgs :
       AnalyzeReset(j, files, arg)
  \/ \E j \in Jobs : AnalyzeStart(j)
  \/ \E j \in Jobs : process_files(j)
  \/ get_status
  \/ download

Spec == Init /\ [][Next]_vars

(* one job, run alone *)
(* a receipt whose job fails in step 3 when the vision service answers, *)
(* and ends well when the fallback record is used                       *)
FairFiles ==
  { [name |-> MEMO_PNG, data |-> "img_null_shop"] }

(* The submissions and their threads alone: the two read-only handlers     *)
(* write nothing a thread reads.                                           *)
NextJobs ==
  \/ \E j \in Jobs, files \in SeqsUpTo(FairFiles, MaxFiles),
         arg \in SharedFormatArgs : AnalyzeReset(j, files, arg)
  \/ \E j \in Jobs : AnalyzeStart(j)
  \/ \E j \in Jobs : process_files(j)

(* lines 357 and 384: every started thread and every request being served *)
(* keeps being scheduled; each call of the vision service returns or       *)
(* raises (the client has a timeout), so each step of a thread is finite.  *)
FairSpec ==
  /\ Init
  /\ [][NextJobs]_vars
  /\ \A j \in Jobs : WF_vars(AnalyzeStart(j)) /\ WF_vars(process_files(j))

(* Pieces of text a file name is made of: a keyword of each category, two *)
(* halves of a keyword, a keyword in the wrong case and a letter that is  *)
(* part of no keyword.                                                    *)
Words ==
  { <<"j.chuu", "j.sha">>, <<"I", "C">>, <<"k.ka", "k.fe">>, <<"i", "n", "n">>,
    <<"k.ko", "k.n", "k.bi", "k.ni">>, <<"a", "u">>,
    <<"j.den">>, <<"j.sha">>, <<"i", "c">>, <<"x">> }

RECURSIVE TextsUpTo(_)
TextsUpTo(n) ==
  IF n = 0 THEN {<<>>}
  ELSE LET shorter == TextsUpTo(n - 1)
       IN  shorter \cup {t \o w : t \in shorter, w \in Words}

(* one receipt whose file name is a text followed by ".jpg": without the *)
(* credential the text becomes the merchant of the fallback record       *)
NamedFiles ==
  { [name |-> t \o <<".", "j", "p", "g">>, data |-> "img_icinn"] :
      t \in TextsUpTo(MaxWords) }

NextNamed ==
  \/ \E f \in NamedFiles : AnalyzeReset(1, <<f>>, "absent")
  \/ AnalyzeStart(1)
  \/ process_files(1)
  \/ get_status
  \/ download

SpecNamed == Init /\ [][NextNamed]_vars

NextOne ==
  \/ \E files \in SeqsUpTo(Files, MaxBatch), arg \in FormatArgs :
       AnalyzeReset(1, files, arg)
  \/ AnalyzeStart(1)
  \/ process_files(1)
  \/ get_status
  \/ download

SpecOne == Init /\ [][NextOne]_vars

----------------------------------------------------------------------------
(* Properties *)

TaskPcs == {"step1", "stage", "extract", "classify", "step4", "step5", "render",
            "publish"}

Messages == {MSG_ADD, MSG_IN, MSG_ATTR, MSG_FORMAT, MSG_WRITE}

(* C1: within one job run alone, step only ever grows by one (0, 1, 2, 3, *)
(* 4, 5 in that order, no value skipped, none repeated after a later one)  *)
(* and done becomes true only in a state where step is 5.                  *)
C1_StepsInOrder ==
  [][ /\ status'["step"] \in {status["step"], status["step"] + 1}
      /\ status["step"] \in 0..5
      /\ status'["done"] => status["step"] = 5 ]_vars

(* a finished single job: five steps taken, done published *)
C1_Witness ==
  /\ job[1].pc = "finished"
  /\ status["step"] = 5
  /\ status["done"]
  /\ status["count"] = 2

(* C2: once a later job has been submitted, no step of an earlier job's    *)
(* background task changes the shared status: the status then holds only   *)
(* what the later submission and its task wrote.                           *)
C2_OnlySecondJobVisible ==
  [][ \A j \in Jobs :
        ( /\ job[j].pc \in TaskPcs
          /\ job'[j] # job[j]
          /\ \E k \in Jobs : k > j /\ job[k].pc # "idle" )
          => status' = status ]_vars

(* C3: a step that ends a job with an exception changes nothing of the     *)
(* shared status but error, which gets the exception's message (so it     *)
(* does not set done and step keeps its value), and the failed job takes   *)
(* no further step.                                                        *)
C3_ErrorStoredNoRollback ==
  [][ \A j \in Jobs :
        /\ (job[j].pc # "failed" /\ job'[j].pc = "failed")
             => /\ status'["error"] \in Messages
                /\ status' = [status EXCEPT !["error"] = status'["error"]]
        /\ job[j].pc = "failed" => job'[j] = job[j] ]_vars

(* a classification fault: the error is stored, step 3 stays visible *)
C3_Witness ==
  /\ job[1].pc = "failed"
  /\ status["error"] = MSG_ADD
  /\ status["step"] = 3
  /\ ~status["done"]

(* two records that differ at most in the category *)
SameButCategory(a, b) ==
  /\ DOMAIN a \ {"category"} = DOMAIN b \ {"category"}
  /\ \A k \in DOMAIN a \ {"category"} : a[k] = b[k]

(* record i is the one made for file i: the fallback for its name, or the  *)
(* answer for the image staged under its name                              *)
RecordOfFile(r, f) ==
  \/ SameButCategory(r, fallback_read(f.name))
  \/ SameButCategory(r, VisionAnswer(uploads[f.name]))

(* C4: once extraction is over, the record list has exactly one record per *)
(* uploaded file, in file order, whatever the adapter answered, and the    *)
(* update that sets done reports count = the number of uploaded files.     *)
C4_OneRecordPerFile ==
  [][ /\ job[1].pc \in {"classify", "step4", "step5", "render", "publish"}
        => /\ Len(job[1].receipts) = Len(job[1].files_data)
           /\ \A i \in 1..Len(job[1].files_data) :
                RecordOfFile(job[1].receipts[i], job[1].files_data[i])
      /\ (job[1].pc = "publish" /\ job'[1].pc = "finished")
        => /\ status'["done"]
           /\ status'["count"] = Len(job[1].files_data) ]_vars

(* two files, one answered by the service and one by the fallback, about   *)
(* to be published                                                         *)
C4_Witness ==
  /\ api_key
  /\ job[1].pc = "publish"
  /\ job[1].files_data = <<[name |-> MEMO_PNG, data |-> "img_icinn"],
                           [name |-> HOTEL_JPG, data |-> "img_cafe"]>>
  /\ SameButCategory(job[1].receipts[1], fallback_read(MEMO_PNG))
  /\ job[1].receipts[2] = VisionAnswer("img_cafe")

AllFallback(j) ==
  \A i \in 1..Len(job[j].receipts) :
    SameButCategory(job[j].receipts[i], fallback_read(job[j].saved_paths[i]))

(* C5: an extraction pass never ends the job and never touches the status; *)
(* when the adapter's call fails it appends the fallback record of the     *)
(* file; and a job whose records are all fallback records is not stopped   *)
(* by classification: it goes on to steps 4 and 5.                         *)
C5_ExtractionNeverFails ==
  [][ /\ job[1].pc = "extract"
        => /\ job'[1].pc # "failed"
           /\ status'["error"] = status["error"]
      /\ \A o \in Outcomes \ {"ok"} :
           Extract(1, o)
             => job'[1].receipts =
                  Append(job[1].receipts,
                         fallback_read(job[1].saved_paths[Len(job[1].receipts) + 1]))
      /\ (job[1].pc = "classify" /\ AllFallback(1))
        => job'[1].pc \in {"classify", "step4"} ]_vars

(* the credential is there, the service would have answered a full record, *)
(* the call failed: the fallback record is rendered at step 5              *)
C5_Witness ==
  /\ api_key
  /\ job[1].pc = "publish"
  /\ status["step"] = 5
  /\ status["error"] = Null
  /\ job[1].files_data = <<[name |-> HOTEL_JPG, data |-> "img_cafe"]>>
  /\ SameButCategory(job[1].receipts[1], fallback_read(HOTEL_JPG))

(* a record of the data model: an integer amount >= 0, strings elsewhere *)
WellTyped(r) ==
  \A k \in DOMAIN r :
    IF k = "amount" THEN r[k].t = "int" /\ r[k].v >= 0 ELSE r[k].t = "str"

RECURSIVE SumAmounts(_)
SumAmounts(records) ==
  IF records = <<>> THEN 0
  ELSE Get(Head(records), "amount", I(0)).v + SumAmounts(Tail(records))

Categories(records) ==
  {Get(records[i], "category", S(CATCH_ALL)) : i \in 1..Len(records)}

Rendered(records) ==
  {make_excel(records, TRUE), make_csv(records, TRUE),
   make_freee_csv(records, TRUE), make_pdf(records, TRUE)}

(* C6: for every record list a job holds, each renderer that returns       *)
(* returns the sum of the amounts as total, and on records of the data     *)
(* model all four return, so the four totals are the same.                 *)
C6_TotalIsSum ==
  LET records == job[1].receipts
  IN  /\ \A out \in Rendered(records) :
           out.kind = "return" => out.val.total = SumAmounts(records)
      /\ (\A i \in 1..Len(records) : WellTyped(records[i]))
           => \A out \in Rendered(records) : out.kind = "return"

(* two records with different amounts *)
C6_Witness ==
  /\ job[1].pc = "render"
  /\ Len(job[1].receipts) = 2
  /\ \A i \in 1..2 : WellTyped(job[1].receipts[i])
  /\ SumAmounts(job[1].receipts) = 1300

(* C7: for every record list a job holds, each renderer that returns       *)
(* returns the number of different categories as the category count, a     *)
(* record without a category counted as the catch-all.                     *)
C7_CategoryCountIsDistinct ==
  LET records == job[1].receipts
  IN  \A out \in Rendered(records) :
        out.kind = "return" => out.val.cats = Cardinality(Categories(records))

(* a record without category next to a catch-all record: one category *)
C7_Witness ==
  /\ Len(job[1].receipts) = 2
  /\ "category" \notin DOMAIN job[1].receipts[1]
  /\ Get(job[1].receipts[2], "category", PyNone) = S(CATCH_ALL)
  /\ make_excel(job[1].receipts, TRUE) = Ret([total |-> 1500, cats |-> 1])

(* C8: a job without files cannot fail before rendering, its renderer can  *)
(* fail only on writing the artifact, and otherwise its update leaves the  *)
(* status at step 5, done, count 0, total 0, categories 0, error null.     *)
C8_EmptyJobCompletes ==
  [][ (job[1].pc \in TaskPcs /\ job[1].files_data = <<>>) =>
        /\ job'[1].pc = "failed"
             => job[1].pc = "render" /\ status'["error"] = MSG_WRITE
        /\ job'[1].pc = "finished"
             => /\ status'["step"] = 5
                /\ status'["done"]
                /\ status'["error"] = Null
                /\ status'["count"] = 0
                /\ status'["total"] = 0
                /\ status'["categories"] = 0 ]_vars

(* the finished job without files *)
C8_Witness ==
  /\ job[1].pc = "finished"
  /\ status["done"]
  /\ status["step"] = 5
  /\ status["count"] = 0
  /\ status["total"] = 0
  /\ status["categories"] = 0
  /\ status["error"] = Null
  /\ status["format"] = "pdf"

(* C9: the first step of every submission leaves the status at step 0,    *)
(* done false, error null, count 0, total 0, categories 0, whatever it    *)
(* was; its second step stores the submitted format ("excel" when the      *)
(* request has none) and changes nothing else; and the job's task takes    *)
(* its first step only after both.                                         *)
C9_SubmissionResets ==
  [][ \A j \in Jobs :
        /\ (job[j].pc = "idle" /\ job'[j].pc # "idle")
             => /\ job'[j].pc = "request"
                /\ status'["step"] = 0
                /\ status'["done"] = FALSE
                /\ status'["error"] = Null
                /\ status'["count"] = 0
                /\ status'["total"] = 0
                /\ status'["categories"] = 0
        /\ (job[j].pc = "request" /\ job'[j].pc # "request")
             => /\ job'[j].pc = "step1"
                /\ status'["format"] =
                     (IF job[j].form = "absent" THEN "excel" ELSE job[j].form)
                /\ \A f \in DOMAIN status : f # "format" => status'[f] = status[f]
        /\ (job'[j].pc \in TaskPcs \ {"step1"}) => job[j].pc \in TaskPcs ]_vars

(* a second submission, reset and started after a first job had published  *)
(* its result                                                              *)
C9_Witness ==
  /\ job[1].pc = "finished"
  /\ job[2].pc = "step1"
  /\ job[2].form = "absent"
  /\ status = [step |-> 0, done |-> FALSE, error |-> Null, count |-> 0,
               total |-> 0, categories |-> 0, format |-> "excel"]
  /\ HOTEL_JPG \in DOMAIN uploads

(* C10: every answer to a status query has the seven fields step, done,    *)
(* error, count, total, categories and format.                             *)
C10_SevenFields ==
  resp.kind = "status"
    => DOMAIN resp.body =
         {"step", "done", "error", "count", "total", "categories", "format"}

(* C11: a status query and an artifact fetch, whether it sends the file or *)
(* answers "not found", leave the shared status as it was.                 *)
C11_QueriesLeaveStatus ==
  [][ resp'.kind \in {"status", "file", "not_found"} => status' = status ]_vars

(* a fetch that sent the file of a finished job *)
C11_Witness ==
  /\ resp.kind = "file"
  /\ resp.content.complete
  /\ status["done"]

(* C12: under fair scheduling every submitted job terminates, and once it  *)
(* has, the shared status has done = true or an error message, also when   *)
(* another job is submitted while it runs.                                 *)
C12_JobsTerminate ==
  \A j \in Jobs :
    (job[j].pc # "idle") ~>
      (/\ job[j].pc \in {"finished", "failed"}
       /\ (status["done"] \/ status["error"] # Null))

(* both jobs have ended, the second submitted while the first was running, *)
(* and the first ended last                                                *)
C12_Witness ==
  /\ job[1].pc = "failed"
  /\ job[2].pc = "finished"
  /\ status["done"]
  /\ status["error"] # Null

(* The rules with a keyword in the text, by their place in the rule set *)
MatchingRules(text) ==
  { c \in 1..Len(CATEGORY_RULES) :
      \E k \in 1..Len(CATEGORY_RULES[c].keywords) :
        Contains(CATEGORY_RULES[c].keywords[k], text) }

FirstMatch(text) ==
  IF MatchingRules(text) = {} THEN CATCH_ALL
  ELSE CATEGORY_RULES[CHOOSE c \in MatchingRules(text) :
                        \A d \in MatchingRules(text) : c <= d].cat

(* the text step 3 classifies a record by: merchant followed by notes *)
RecordText(r) == Get(r, "shop", S(<<>>)).v \o Get(r, "notes", S(<<>>)).v

(* C13: guess_category gives every text a category: that of the first rule *)
(* in rule-set order with a keyword in the text, and the catch-all when no *)
(* rule has one.  Stated for the texts step 3 is about to classify and for *)
(* the categories it has stored.                                           *)
C13_FirstMatchWins ==
  /\ job[1].pc = "classify" =>
       \A i \in 1..Len(job[1].receipts) :
         guess_category(RecordText(job[1].receipts[i]))
           = FirstMatch(RecordText(job[1].receipts[i]))
  /\ job[1].pc \in {"step4", "step5", "render", "publish"} =>
       \A i \in 1..Len(job[1].receipts) :
         job[1].receipts[i]["category"] = S(FirstMatch(RecordText(job[1].receipts[i])))

(* "innIC.jpg": a keyword of the fourth rule comes first in the text, one  *)
(* of the second rule after it, and the record has the second category    *)
C13_Witness ==
  /\ job[1].pc = "step4"
  /\ Len(job[1].receipts) = 1
  /\ job[1].receipts[1]["shop"] = S(<<"i", "n", "n", "I", "C">>)
  /\ job[1].receipts[1]["category"] = S(CATEGORY_RULES[2].cat)
  /\ MatchingRules(RecordText(job[1].receipts[1])) = {2, 4}

(* C14: in step 2 the fallback record is used for a file exactly when the  *)
(* adapter returned "no result" for it: whatever object the adapter        *)
(* returns, the empty object too, is the record of the file.               *)
C14_FallbackOnlyOnNoResult ==
  (job[1].pc = "extract" /\ Len(job[1].receipts) < Len(job[1].saved_paths)) =>
    LET name == job[1].saved_paths[Len(job[1].receipts) + 1]
    IN  \A outcome \in Outcomes :
          LET result == read_receipt_with_claude(api_key, outcome, uploads[name]).val
          IN  RecordFor(result, name) =
                IF result = PyNone THEN fallback_read(name) ELSE result

(* a record whose category is a non-empty string other than the catch-all *)
HasCategory(r) ==
  /\ "category" \in DOMAIN r
  /\ r["category"].t = "str"
  /\ r["category"].v \notin {<<>>, CATCH_ALL}

(* C15: step 3 changes nothing but the category field, and that only in    *)
(* records whose category is missing, empty or the catch-all: the list     *)
(* keeps its length and order, every other field of every record is as it  *)
(* was, and a record that came with another category is untouched.         *)
C15_ClassifyChangesCategoryOnly ==
  [][ (job[1].pc = "classify" /\ job'[1].pc = "step4") =>
        /\ Len(job'[1].receipts) = Len(job[1].receipts)
        /\ \A i \in 1..Len(job[1].receipts) :
             /\ SameButCategory(job[1].receipts[i], job'[1].receipts[i])
             /\ HasCategory(job[1].receipts[i]) =>
                  job'[1].receipts[i] = job[1].receipts[i] ]_vars

(* after step 3: a record that came with 交通費 although its merchant has *)
(* a keyword of 宿泊費 is as it came, and a record that came without a     *)
(* category has got one                                                    *)
C15_Witness ==
  /\ job[1].pc = "step4"
  /\ Len(job[1].receipts) = 2
  /\ job[1].receipts[1] = VisionAnswer("img_null_date")
  /\ guess_category(RecordText(job[1].receipts[1])) = CATEGORY_RULES[4].cat
  /\ job[1].receipts[1]["category"] = S(CATEGORY_RULES[2].cat)
  /\ job[1].receipts[2] =
       ("category" :> S(CATEGORY_RULES[2].cat)) @@ VisionAnswer("img_icinn")

(* C16: the renderer a job runs in step 5 is the one of the format given   *)
(* in that job's own submission, in every interleaving with other          *)
(* submissions: when its renderer returns, the file written is the file of *)
(* that format.                                                            *)
C16_RendererOfOwnFormat ==
  [][ \A j \in Jobs :
        (job[j].pc = "render" /\ job'[j].pc = "publish") =>
          LET file == ArtifactFile(FormFormat(job[j].form))
          IN  /\ file \in DOMAIN artifacts'
              /\ artifacts'[file] = [by |-> j, complete |-> TRUE] ]_vars

(* the messages of the exceptions the per-record code of steps 3 and 5 *)
(* raises on a field of the wrong type                                  *)
TypeMessages == {MSG_ADD, MSG_IN, MSG_ATTR, MSG_FORMAT}

(* C17: every record that reaches classification and rendering has a      *)
(* non-negative integer amount and a string merchant and notes, whether it *)
(* came from the adapter or the fallback, so the job of a well-formed JSON *)
(* answer never ends with the error of a wrongly typed field.              *)
C17_RecordsWellTyped ==
  /\ job[1].pc \in {"classify", "step4", "step5", "render"} =>
       \A i \in 1..Len(job[1].receipts) :
         LET r == job[1].receipts[i]
         IN  /\ Get(r, "amount", I(0)).t = "int"
             /\ Get(r, "amount", I(0)).v >= 0
             /\ Get(r, "shop", S(<<>>)).t = "str"
             /\ Get(r, "notes", S(<<>>)).t = "str"
  /\ status["error"] \notin TypeMessages

(* C18: in every reachable state of the shared status, done = true implies *)
(* that error is null, for any number of submissions and any interleaving  *)
(* of their threads.                                                       *)
C18_DoneImpliesNoError ==
  status["done"] => status["error"] = Null

(* C19: whenever the status shows done = true, the artifact of the format  *)
(* recorded in it has been written by the job that set done: at the update *)
(* that sets done the file of the recorded format exists and is that       *)
(* job's, and a fetch made while done = true is never answered "not found".*)
C19_DoneArtifactIsTheJobs ==
  [][ /\ \A j \in Jobs :
           (job[j].pc = "publish" /\ job'[j].pc = "finished") =>
             LET file == ArtifactFile(Get(status', "format", "excel"))
             IN  /\ file \in DOMAIN artifacts'
                 /\ artifacts'[file] = [by |-> j, complete |-> TRUE]
      /\ (status["done"] /\ resp'.kind \in {"file", "not_found"}) =>
           resp'.kind = "file" ]_vars

(* C20: within one job the extraction of each uploaded file reads the      *)
(* bytes uploaded for that file, also when two files of the batch have the *)
(* same name: when the extraction loop comes to file i, the bytes staged   *)
(* under its path are those of file i.                                     *)
C20_ExtractionReadsOwnBytes ==
  (job[1].pc = "extract" /\ Len(job[1].receipts) < Len(job[1].saved_paths)) =>
    LET i == Len(job[1].receipts) + 1
    IN  uploads[job[1].saved_paths[i]] = job[1].files_data[i].data

====
